---- MODULE Spec2Model ----
(***************************************************************************)
(* Debian version comparison of pydpkg (class Dpkg, static methods).      *)
(*                                                                         *)
(* A Python str is modelled as a sequence of one-character strings, a      *)
(* Python tuple as a TLA+ tuple, and a raised exception as the field exc   *)
(* of the returned record ("" when the call returns normally).            *)
(*                                                                         *)
(* The instances of Dpkg and Dsc: the files on disk are fs, what the file  *)
(* under inspection holds is input, and inst is the instance with its      *)
(* memoized attributes.                                                    *)
(***************************************************************************)
EXTENDS Integers, Sequences, FiniteSets, TLC

VARIABLES
    args,   \* the arguments of the call, a tuple of strings
    op,     \* the name of the method that was called, "none" before the call
    ret,    \* [exc, val]: the exception raised ("" if none) and the integer returned
    out,    \* the non-integer part of the returned value (tuple, token list, sorted list)
    fs,     \* the files on disk: 0 for an absent file, else the version of its bytes
    input,  \* what the collaborators read from the inspected file (package or dsc)
    inst    \* the Dpkg or Dsc instance: its attributes, and how often it did file I/O

vars == <<args, op, ret, out, fs, input, inst>>

\* no file, no instance: the static methods need neither
NoFiles == <<>>
NoInput == [kind |-> "none"]
NoInstance == [kind |-> "none"]

----------------------------------------------------------------------------
(* Bounds of the model *)

\* longest string of a pair of arguments
MaxLen == 2
\* longest string given to a one-argument method
MaxStrLen == 3
\* total length of the three strings of a chain of comparisons
MaxTotal == 4

----------------------------------------------------------------------------
(* Characters *)

Digits == {"0", "1", "9"}
Letters == {"a", "b"}
Others == {"~", ".", "-", ":"}
Alphabet == Digits \cup Letters \cup Others

\* ord(char)
ord == [c \in Alphabet |->
          CASE c = "0" -> 48 [] c = "1" -> 49 [] c = "9" -> 57
            [] c = "a" -> 97 [] c = "b" -> 98
            [] c = "~" -> 126 [] c = "." -> 46 [] c = "-" -> 45 [] c = ":" -> 58]

\* char.isdigit()
isdigit(c) == c \in Digits

\* char.isalpha()
isalpha(c) == c \in Letters

\* the strings over the characters cs of length at most n
StringsOver(cs, n) == UNION {[1..k -> cs] : k \in 0..n}

\* s[i:] of Python, i a 0-based index with 0 <= i <= len(s)
From(s, i) == SubSeq(s, i + 1, Len(s))

\* s[0:i] of Python
UpTo(s, i) == SubSeq(s, 1, i)

\* s.index(c): the 0-based index of the first c in s, -1 for ValueError
index(s, c) ==
    IF \E i \in 1..Len(s) : s[i] = c
    THEN (CHOOSE i \in 1..Len(s) : s[i] = c /\ \A j \in 1..(i - 1) : s[j] # c) - 1
    ELSE -1

\* s.rindex(c): the 0-based index of the last c in s, -1 for ValueError
rindex(s, c) ==
    IF \E i \in 1..Len(s) : s[i] = c
    THEN (CHOOSE i \in 1..Len(s) : s[i] = c /\ \A j \in (i + 1)..Len(s) : s[j] # c) - 1
    ELSE -1

\* the value of a string of decimal digits
RECURSIVE DecVal(_)
DecVal(s) ==
    IF s = <<>> THEN 0
    ELSE DecVal(UpTo(s, Len(s) - 1)) * 10 + (ord[s[Len(s)]] - ord["0"])

AllDigits(s) == \A i \in 1..Len(s) : isdigit(s[i])

\* int(s) of Python on the model's characters: an optional sign, then one or
\* more digits; anything else is a ValueError
int(s) ==
    IF s # <<>> /\ AllDigits(s) THEN [exc |-> "", val |-> DecVal(s)]
    ELSE IF Len(s) > 1 /\ s[1] = "-" /\ AllDigits(Tail(s))
         THEN [exc |-> "", val |-> 0 - DecVal(Tail(s))]
         ELSE [exc |-> "ValueError", val |-> 0]

----------------------------------------------------------------------------
(* Dpkg.get_epoch, get_upstream, split_full_version *)

\* get_epoch with the slice after the colon taken one character too early
get_epoch_keeps_colon(version_str) ==
    LET e_index == index(version_str, ":") IN
    IF e_index = -1
    THEN [exc |-> "", epoch |-> 0, rest |-> version_str]
    ELSE LET epoch == int(UpTo(version_str, e_index)) IN
         IF epoch.exc # ""
         THEN [exc |-> "DpkgVersionError", epoch |-> 0, rest |-> <<>>]
         ELSE [exc |-> "", epoch |-> epoch.val, rest |-> From(version_str, e_index)]

\* (epoch, version) or DpkgVersionError
get_epoch(version_str) ==
    LET e_index == index(version_str, ":") IN
    IF e_index = -1
    THEN [exc |-> "", epoch |-> 0, rest |-> version_str]
    ELSE LET epoch == int(UpTo(version_str, e_index)) IN
         IF epoch.exc # ""
         THEN [exc |-> "DpkgVersionError", epoch |-> 0, rest |-> <<>>]
         ELSE [exc |-> "", epoch |-> epoch.val, rest |-> From(version_str, e_index + 1)]

\* get_upstream with an empty revision instead of '0' when there is no hyphen
get_upstream_empty_revision(version_str) ==
    LET d_index == rindex(version_str, "-") IN
    IF d_index = -1
    THEN <<version_str, <<>>>>
    ELSE <<UpTo(version_str, d_index), From(version_str, d_index + 1)>>

\* (upstream, debian); the debian revision is '0' when there is no hyphen
get_upstream(version_str) ==
    LET d_index == rindex(version_str, "-") IN
    IF d_index = -1
    THEN <<version_str, <<"0">>>>
    ELSE <<UpTo(version_str, d_index), From(version_str, d_index + 1)>>

\* (epoch, upstream, debian) or DpkgVersionError
split_full_version(version_str) ==
    LET e == get_epoch(version_str) IN
    IF e.exc # ""
    THEN [exc |-> e.exc, epoch |-> 0, upstream |-> <<>>, debian |-> <<>>]
    ELSE LET u == get_upstream(e.rest) IN
         [exc |-> "", epoch |-> e.epoch, upstream |-> u[1], debian |-> u[2]]

----------------------------------------------------------------------------
(* Dpkg.get_alphas, get_digits, listify *)

\* the 0-based index of the first character of s that satisfies (digit = TRUE)
\* or does not satisfy (digit = FALSE) isdigit, Len(s) when there is none
FirstIndex(s, digit) ==
    IF \E i \in 1..Len(s) : isdigit(s[i]) = digit
    THEN (CHOOSE i \in 1..Len(s) :
              isdigit(s[i]) = digit /\ \A j \in 1..(i - 1) : isdigit(s[j]) # digit) - 1
    ELSE Len(s)

\* get_alphas that takes the remaining characters from after the first digit
get_alphas_past_digit(revision_str) ==
    LET i == FirstIndex(revision_str, TRUE) IN
    IF i = Len(revision_str) THEN <<revision_str, <<>>>>
    ELSE IF i = 0 THEN <<<<>>, revision_str>>
    ELSE <<UpTo(revision_str, i), From(revision_str, i + 1)>>

\* (leading non-digit characters, remaining characters)
get_alphas(revision_str) ==
    LET i == FirstIndex(revision_str, TRUE) IN
    IF i = Len(revision_str) THEN <<revision_str, <<>>>>
    ELSE IF i = 0 THEN <<<<>>, revision_str>>
    ELSE <<UpTo(revision_str, i), From(revision_str, i)>>

\* get_digits that converts the first digit of the run only
get_digits_first_digit(revision_str) ==
    IF revision_str = <<>> THEN <<0, <<>>>>
    ELSE LET i == FirstIndex(revision_str, FALSE) IN
         IF i = Len(revision_str) THEN <<int(UpTo(revision_str, 1)).val, <<>>>>
         ELSE IF i = 0 THEN <<0, revision_str>>
         ELSE <<int(UpTo(revision_str, 1)).val, From(revision_str, i)>>

\* (value of the leading digit characters, remaining characters)
get_digits(revision_str) ==
    IF revision_str = <<>> THEN <<0, <<>>>>
    ELSE LET i == FirstIndex(revision_str, FALSE) IN
         IF i = Len(revision_str) THEN <<int(revision_str).val, <<>>>>
         ELSE IF i = 0 THEN <<0, revision_str>>
         ELSE <<int(UpTo(revision_str, i)).val, From(revision_str, i)>>

\* the tokens of a Python list that mixes str and int
StrTok(s) == [isint |-> FALSE, s |-> s, n |-> 0]
IntTok(n) == [isint |-> TRUE, s |-> <<>>, n |-> n]

\* listify that leaves out an empty leading run instead of padding with ''
RECURSIVE listify_unpadded(_)
listify_unpadded(revision_str) ==
    IF revision_str = <<>> THEN <<>>
    ELSE LET a == get_alphas(revision_str)
             d == get_digits(a[2])
         IN  (IF a[1] = <<>> THEN <<>> ELSE <<StrTok(a[1])>>)
                 \o <<IntTok(d[1])>> \o listify_unpadded(d[2])

RECURSIVE listify(_)
listify(revision_str) ==
    IF revision_str = <<>> THEN <<>>
    ELSE LET a == get_alphas(revision_str)
             d == get_digits(a[2])
         IN  <<StrTok(a[1]), IntTok(d[1])>> \o listify(d[2])

----------------------------------------------------------------------------
(* Dpkg.dstringcmp *)

\* dstringcmp without the test for a tilde in b
RECURSIVE dstringcmp_loop_tilde_in_a_only(_, _, _)
dstringcmp_loop_tilde_in_a_only(a, b, i) ==
    IF i > Len(a) THEN (IF b[Len(a) + 1] = "~" THEN 1 ELSE -1)
    ELSE IF i > Len(b) THEN (IF a[i] = "~" THEN -1 ELSE 1)
    ELSE IF a[i] = b[i] THEN dstringcmp_loop_tilde_in_a_only(a, b, i + 1)
    ELSE IF a[i] = "~" THEN -1
    ELSE IF isalpha(a[i]) /\ ~isalpha(b[i]) THEN -1
    ELSE IF ~isalpha(a[i]) /\ isalpha(b[i]) THEN 1
    ELSE IF ord[a[i]] > ord[b[i]] THEN 1
    ELSE IF ord[a[i]] < ord[b[i]] THEN -1
    ELSE dstringcmp_loop_tilde_in_a_only(a, b, i + 1)

\* dstringcmp without the test for a tilde after the end of a
RECURSIVE dstringcmp_loop_short_a_is_less(_, _, _)
dstringcmp_loop_short_a_is_less(a, b, i) ==
    IF i > Len(a) THEN -1
    ELSE IF i > Len(b) THEN (IF a[i] = "~" THEN -1 ELSE 1)
    ELSE IF a[i] = b[i] THEN dstringcmp_loop_short_a_is_less(a, b, i + 1)
    ELSE IF a[i] = "~" THEN -1
    ELSE IF b[i] = "~" THEN 1
    ELSE IF isalpha(a[i]) /\ ~isalpha(b[i]) THEN -1
    ELSE IF ~isalpha(a[i]) /\ isalpha(b[i]) THEN 1
    ELSE IF ord[a[i]] > ord[b[i]] THEN 1
    ELSE IF ord[a[i]] < ord[b[i]] THEN -1
    ELSE dstringcmp_loop_short_a_is_less(a, b, i + 1)

\* dstringcmp without the rule that letters sort before non-letters
RECURSIVE dstringcmp_loop_ascii(_, _, _)
dstringcmp_loop_ascii(a, b, i) ==
    IF i > Len(a) THEN (IF b[Len(a) + 1] = "~" THEN 1 ELSE -1)
    ELSE IF i > Len(b) THEN (IF a[i] = "~" THEN -1 ELSE 1)
    ELSE IF a[i] = b[i] THEN dstringcmp_loop_ascii(a, b, i + 1)
    ELSE IF a[i] = "~" THEN -1
    ELSE IF b[i] = "~" THEN 1
    ELSE IF ord[a[i]] > ord[b[i]] THEN 1
    ELSE IF ord[a[i]] < ord[b[i]] THEN -1
    ELSE dstringcmp_loop_ascii(a, b, i + 1)

\* the for loop of dstringcmp from position i (1-based) on, with its IndexError
\* handler and the code after the loop
RECURSIVE dstringcmp_loop(_, _, _)
dstringcmp_loop(a, b, i) ==
    IF i > Len(a)
    THEN \* a is shorter than b but otherwise equal
         IF b[Len(a) + 1] = "~" THEN 1 ELSE -1
    ELSE IF i > Len(b)
    THEN \* IndexError: a is longer than b but otherwise equal
         IF a[i] = "~" THEN -1 ELSE 1
    ELSE IF a[i] = b[i] THEN dstringcmp_loop(a, b, i + 1)
    ELSE IF a[i] = "~" THEN -1
    ELSE IF b[i] = "~" THEN 1
    ELSE IF isalpha(a[i]) /\ ~isalpha(b[i]) THEN -1
    ELSE IF ~isalpha(a[i]) /\ isalpha(b[i]) THEN 1
    ELSE IF ord[a[i]] > ord[b[i]] THEN 1
    ELSE IF ord[a[i]] < ord[b[i]] THEN -1
    ELSE dstringcmp_loop(a, b, i + 1)

dstringcmp(a, b) == IF a = b THEN 0 ELSE dstringcmp_loop(a, b, 1)

\* sorted(items, key=Dpkg.dstringcmp_key): cmp_to_key makes the sort ask only
\* dstringcmp(x, y) < 0, and the sort is stable
RECURSIVE sorted_dstringcmp_key(_)
sorted_dstringcmp_key(items) ==
    IF items = <<>> THEN <<>>
    ELSE LET x == items[Len(items)]
             front == sorted_dstringcmp_key(UpTo(items, Len(items) - 1))
             \* x goes after the last element it is not less than
             k == Cardinality({i \in 1..Len(front) :
                                  \E j \in i..Len(front) : ~(dstringcmp(x, front[j]) < 0)})
         IN  UpTo(front, k) \o <<x>> \o From(front, k)

----------------------------------------------------------------------------
(* Dpkg.compare_revision_strings *)

\* the for loop of compare_revision_strings from index i (1-based) on
RECURSIVE compare_revision_loop(_, _, _)
compare_revision_loop(list1, list2, i) ==
    IF i > Len(list1)
    THEN \* rev1 is shorter than rev2 but otherwise equal
         [exc |-> "", val |-> -1]
    ELSE IF i > Len(list2)
    THEN \* IndexError: rev1 is longer than rev2 but otherwise equal
         [exc |-> "", val |-> 1]
    ELSE IF list1[i].isint # list2[i].isint
    THEN [exc |-> "DpkgVersionError", val |-> 0]
    ELSE IF list1[i] = list2[i] THEN compare_revision_loop(list1, list2, i + 1)
    ELSE IF list1[i].isint
    THEN IF list1[i].n > list2[i].n THEN [exc |-> "", val |-> 1]
         ELSE IF list1[i].n < list2[i].n THEN [exc |-> "", val |-> -1]
         ELSE compare_revision_loop(list1, list2, i + 1)
    ELSE [exc |-> "", val |-> dstringcmp(list1[i].s, list2[i].s)]

compare_revision_strings(rev1, rev2) ==
    IF rev1 = rev2 THEN [exc |-> "", val |-> 0]
    ELSE LET list1 == listify(rev1)
             list2 == listify(rev2)
         IN  IF list1 = list2 THEN [exc |-> "", val |-> 0]
             ELSE compare_revision_loop(list1, list2, 1)

----------------------------------------------------------------------------
(* Dpkg.compare_versions *)

\* compare_versions without the test for identical strings
compare_versions_no_fast_path(ver1, ver2) ==
    LET v1 == split_full_version(ver1)
        v2 == split_full_version(ver2)
    IN  IF v1.exc # "" THEN [exc |-> v1.exc, val |-> 0]
        ELSE IF v2.exc # "" THEN [exc |-> v2.exc, val |-> 0]
        ELSE IF v1.epoch < v2.epoch THEN [exc |-> "", val |-> -1]
        ELSE IF v1.epoch > v2.epoch THEN [exc |-> "", val |-> 1]
        ELSE LET upstr_res == compare_revision_strings(v1.upstream, v2.upstream) IN
             IF upstr_res.exc # "" \/ upstr_res.val # 0 THEN upstr_res
             ELSE compare_revision_strings(v1.debian, v2.debian)

compare_versions(ver1, ver2) ==
    IF ver1 = ver2 THEN [exc |-> "", val |-> 0]
    ELSE LET v1 == split_full_version(ver1)
             v2 == split_full_version(ver2)
         IN  IF v1.exc # "" THEN [exc |-> v1.exc, val |-> 0]
             ELSE IF v2.exc # "" THEN [exc |-> v2.exc, val |-> 0]
             ELSE IF v1.epoch < v2.epoch THEN [exc |-> "", val |-> -1]
             ELSE IF v1.epoch > v2.epoch THEN [exc |-> "", val |-> 1]
             ELSE LET upstr_res == compare_revision_strings(v1.upstream, v2.upstream) IN
                  IF upstr_res.exc # "" \/ upstr_res.val # 0 THEN upstr_res
                  ELSE compare_revision_strings(v1.debian, v2.debian)

----------------------------------------------------------------------------
(* The calls: the arguments are chosen in the initial state, an action is one
   call of a method and records what it returns or raises *)

NoResult == [exc |-> "", val |-> 0]

Call(name, r, o) ==
    /\ op = "none"
    /\ op' = name
    /\ ret' = r
    /\ out' = o
    /\ UNCHANGED <<args, fs, input, inst>>

GetEpoch ==
    /\ Len(args) = 1
    /\ LET r == get_epoch(args[1]) IN
       Call("get_epoch", [exc |-> r.exc, val |-> r.epoch], <<r.rest>>)

GetUpstream ==
    /\ Len(args) = 1
    /\ Call("get_upstream", NoResult, get_upstream(args[1]))

SplitFullVersion ==
    /\ Len(args) = 1
    /\ LET r == split_full_version(args[1]) IN
       Call("split_full_version", [exc |-> r.exc, val |-> r.epoch], <<r.upstream, r.debian>>)

GetAlphas ==
    /\ Len(args) = 1
    /\ Call("get_alphas", NoResult, get_alphas(args[1]))

GetDigits ==
    /\ Len(args) = 1
    /\ LET r == get_digits(args[1]) IN
       Call("get_digits", [exc |-> "", val |-> r[1]], <<r[2]>>)

\* listify of the first argument
Listify ==
    /\ Len(args) \in {1, 2}
    /\ Call("listify", NoResult, listify(args[1]))

Dstringcmp ==
    /\ Len(args) = 2
    /\ Call("dstringcmp", [exc |-> "", val |-> dstringcmp(args[1], args[2])], <<>>)

\* sorted(args, key=Dpkg.dstringcmp_key)
SortedDstringcmpKey ==
    /\ Len(args) > 2
    /\ Call("sorted", NoResult, sorted_dstringcmp_key(args))

CompareRevisionStrings ==
    /\ Len(args) = 2
    /\ Call("compare_revision_strings", compare_revision_strings(args[1], args[2]), <<>>)

CompareVersions ==
    /\ Len(args) = 2
    /\ Call("compare_versions", compare_versions(args[1], args[2]), <<>>)

\* the three comparisons of a chain a, b, c: (a, b), (b, c) and (a, c)
CompareVersionsChain ==
    /\ Len(args) = 3
    /\ Call("compare_versions_chain", NoResult,
            <<compare_versions(args[1], args[2]),
              compare_versions(args[2], args[3]),
              compare_versions(args[1], args[3])>>)

Start(inputs) ==
    /\ args \in inputs
    /\ op = "none"
    /\ ret = NoResult
    /\ out = <<>>
    /\ fs = NoFiles
    /\ input = NoInput
    /\ inst = NoInstance

----------------------------------------------------------------------------
(* One-argument methods on every string of at most MaxStrLen characters *)

StrInputs == {<<s>> : s \in StringsOver(Alphabet, MaxStrLen)}

Init == Start(StrInputs)

Next ==
    \/ GetEpoch
    \/ GetUpstream
    \/ SplitFullVersion
    \/ GetAlphas
    \/ GetDigits
    \/ Listify

Spec == Init /\ [][Next]_vars

----------------------------------------------------------------------------
(* dstringcmp on pairs of strings without digits, and the sort of the policy
   manual's example in every order of its elements *)

LexChars == Letters \cup {"~", ".", "-"}

TildeExample == {<<"a">>, <<>>, <<"~">>, <<"~", "~", "a">>, <<"~", "~">>}

LexInputs ==
    {<<a, b>> : a \in StringsOver(LexChars, MaxLen), b \in StringsOver(LexChars, MaxLen)}
    \cup {p \in [1..Cardinality(TildeExample) -> TildeExample] :
             \A i, j \in DOMAIN p : i # j => p[i] # p[j]}

InitLex == Start(LexInputs)

NextLex == Dstringcmp \/ SortedDstringcmpKey

SpecLex == InitLex /\ [][NextLex]_vars

----------------------------------------------------------------------------
(* compare_revision_strings and listify on pairs of revision strings *)

RevChars == Digits \cup {"a", "~", "."}

\* pairs that differ in one run of digits only: a prefix and a suffix without
\* digits around two different digit runs
NumericPairs ==
    {<<p \o x \o q, p \o y \o q>> :
        p \in StringsOver({"a", "."}, 1), q \in StringsOver({"a", "~"}, 1),
        x \in StringsOver(Digits, 2) \ {<<>>}, y \in StringsOver(Digits, 2) \ {<<>>}}

\* a revision and the same revision followed by a tilde and a suffix
TildePairs ==
    {<<r \o <<"~">> \o t, r>> :
        r \in StringsOver(RevChars, MaxLen), t \in StringsOver({"a", "1"}, 1)}

Swapped(pairs) == {<<p[2], p[1]>> : p \in pairs}

RevInputs ==
    {<<a, b>> : a \in StringsOver(RevChars, MaxLen), b \in StringsOver(RevChars, MaxLen)}
    \cup NumericPairs
    \cup TildePairs \cup Swapped(TildePairs)

InitRev == Start(RevInputs)

NextRev == CompareRevisionStrings \/ Listify

SpecRev == InitRev /\ [][NextRev]_vars

----------------------------------------------------------------------------
(* compare_versions on pairs of version strings *)

VerChars == {"0", "1", "a", "~", "-", ":"}

\* a version and the same version with the epoch 0 or an all-zero revision
DefaultPairs ==
    UNION {{<<v, <<"0", ":">> \o v>>, <<v, v \o <<"-", "0">>>>, <<v, v \o <<"-", "0", "0">>>>} :
              v \in StringsOver(VerChars, MaxLen)}

VerInputs ==
    {<<a, b>> : a \in StringsOver(VerChars, MaxLen), b \in StringsOver(VerChars, MaxLen)}
    \cup DefaultPairs \cup Swapped(DefaultPairs)

InitVer == Start(VerInputs)

NextVer == CompareVersions

SpecVer == InitVer /\ [][NextVer]_vars

----------------------------------------------------------------------------
(* chains of three version strings *)

InitChain ==
    /\ \E la \in 0..MaxTotal : \E lb \in 0..(MaxTotal - la) : \E lc \in 0..(MaxTotal - la - lb) :
          args \in [1..la -> VerChars] \X [1..lb -> VerChars] \X [1..lc -> VerChars]
    /\ op = "none"
    /\ ret = NoResult
    /\ out = <<>>
    /\ fs = NoFiles
    /\ input = NoInput
    /\ inst = NoInstance

NextChain == CompareVersionsChain

SpecChain == InitChain /\ [][NextChain]_vars

----------------------------------------------------------------------------
(* Properties *)

Returned(n) == [exc |-> "", val |-> n]

Sign(n) == IF n > 0 THEN 1 ELSE IF n < 0 THEN -1 ELSE 0

\* x is r followed by a tilde and any suffix
TildeExtends(x, r) ==
    /\ Len(x) > Len(r)
    /\ UpTo(x, Len(r)) = r
    /\ x[Len(r) + 1] = "~"

\* C1: a tilde sorts before everything, the end of the string included: for
\* every revision r and suffix t, compare_revision_strings(r + '~' + t, r) is
\* -1 and compare_revision_strings(r, r + '~' + t) is 1, also when r ends in a
\* digit run.
C1_TildeSortsBeforeEnd ==
    op = "compare_revision_strings" =>
        /\ TildeExtends(args[1], args[2]) => ret = Returned(-1)
        /\ TildeExtends(args[2], args[1]) => ret = Returned(1)

\* C2: compare_versions is antisymmetric: compare_versions(a, b) raises exactly
\* when compare_versions(b, a) raises, and otherwise the two results are
\* opposite.
C2_Antisymmetric ==
    op = "compare_versions" =>
        LET back == compare_versions(args[2], args[1]) IN
        /\ (ret.exc # "") <=> (back.exc # "")
        /\ ret.exc = "" => ret.val = 0 - back.val

C2_Witness ==
    /\ op = "compare_versions"
    /\ ret = Returned(-1)
    /\ \E i \in 1..Len(args[1]) : args[1][i] = "~"
    /\ get_epoch(args[2]).epoch = get_epoch(args[1]).epoch

WellFormed(v) == split_full_version(v).exc = ""

\* C3: compare_versions is transitive over every chain a, b, c of well-formed
\* version strings: a <= b and b <= c give a <= c, and a = b and b = c give
\* a = c.
C3_Transitive ==
    (op = "compare_versions_chain" /\ \A i \in 1..3 : WellFormed(args[i])) =>
        /\ \A i \in 1..3 : out[i].exc = ""
        /\ (out[1].val <= 0 /\ out[2].val <= 0) => out[3].val <= 0
        /\ (out[1].val = 0 /\ out[2].val = 0) => out[3].val = 0

C3_Witness ==
    /\ op = "compare_versions_chain"
    /\ \A i \in 1..3 : WellFormed(args[i])
    /\ out[1] = Returned(-1)
    /\ out[2] = Returned(-1)
    /\ out[3] = Returned(-1)
    /\ \E i \in 1..Len(args[2]) : args[2][i] = "~"

\* C4: compare_versions(v, v) is 0 for every string v, and nothing is raised,
\* also when the epoch prefix of v is malformed.
C4_Reflexive ==
    (op = "compare_versions" /\ args[1] = args[2]) => ret = Returned(0)

C4_Witness ==
    /\ op = "compare_versions"
    /\ args[1] = args[2]
    /\ ~WellFormed(args[1])
    /\ ret = Returned(0)

\* C5: leaving the epoch out is the same as the epoch 0: for every version v
\* without a colon, compare_versions(v, '0:' + v) and
\* compare_versions('0:' + v, v) are 0.
C5_EpochOmitted ==
    op = "compare_versions" =>
        /\ (index(args[1], ":") = -1 /\ args[2] = <<"0", ":">> \o args[1])
               => ret = Returned(0)
        /\ (index(args[2], ":") = -1 /\ args[1] = <<"0", ":">> \o args[2])
               => ret = Returned(0)

C5_Witness ==
    /\ op = "compare_versions"
    /\ index(args[1], ":") = -1
    /\ Len(args[1]) = MaxLen
    /\ args[2] = <<"0", ":">> \o args[1]
    /\ ret = Returned(0)

\* w is v followed by a hyphen and a revision of one or more zeros
ZeroRevision(v, w) ==
    /\ Len(w) > Len(v) + 1
    /\ UpTo(w, Len(v)) = v
    /\ w[Len(v) + 1] = "-"
    /\ \A i \in (Len(v) + 2)..Len(w) : w[i] = "0"

\* C6 (as stated): for every string v without a hyphen,
\* compare_versions(v, v + '-0') and compare_versions(v, v + '-00') are 0, in
\* both argument orders.
C6_RevisionOmitted ==
    op = "compare_versions" =>
        /\ (rindex(args[1], "-") = -1 /\ ZeroRevision(args[1], args[2]))
               => ret = Returned(0)
        /\ (rindex(args[2], "-") = -1 /\ ZeroRevision(args[2], args[1]))
               => ret = Returned(0)

\* C6 (amended): leaving the revision out is the same as an all-zero revision:
\* for every version string v without a hyphen whose epoch, if it has one, is
\* an integer, compare_versions(v, v + '-0') and compare_versions(v, v + '-00')
\* are 0, in both argument orders.
C6_RevisionOmittedWellFormed ==
    op = "compare_versions" =>
        /\ (rindex(args[1], "-") = -1 /\ WellFormed(args[1]) /\ ZeroRevision(args[1], args[2]))
               => ret = Returned(0)
        /\ (rindex(args[2], "-") = -1 /\ WellFormed(args[2]) /\ ZeroRevision(args[2], args[1]))
               => ret = Returned(0)

C6_Witness ==
    /\ op = "compare_versions"
    /\ rindex(args[2], "-") = -1
    /\ index(args[2], ":") # -1
    /\ WellFormed(args[2])
    /\ args[1] = args[2] \o <<"-", "0", "0">>
    /\ ret = Returned(0)

\* the rule of the policy manual on two different strings: the first position
\* at which they differ, or at which one of them has ended, decides
LexicalRule(a, b) ==
    LET i == CHOOSE k \in 1..(Len(a) + 1) :
                 /\ k > Len(a) \/ k > Len(b) \/ a[k] # b[k]
                 /\ \A j \in 1..(k - 1) : j <= Len(b) /\ a[j] = b[j]
    IN  IF i > Len(a) THEN (IF b[i] = "~" THEN 1 ELSE -1)
        ELSE IF i > Len(b) THEN (IF a[i] = "~" THEN -1 ELSE 1)
        ELSE IF a[i] = "~" \/ b[i] = "~" THEN (IF a[i] = "~" THEN -1 ELSE 1)
        ELSE IF (a[i] \in Letters) # (b[i] \in Letters)
             THEN (IF a[i] \in Letters THEN -1 ELSE 1)
        ELSE Sign(ord[a[i]] - ord[b[i]])

\* C7: dstringcmp is the lexical rule of the policy manual on strings without
\* digits: 0 iff the strings are equal; at the first differing position a tilde
\* is lower, else a letter is lower than a non-letter, else the code points
\* decide; a proper prefix is lower unless the longer string goes on with a
\* tilde. Sorting 'a', '', '~', '~~a', '~~' with it gives '~~', '~~a', '~', '',
\* 'a'.
C7_LexicalRule ==
    /\ op = "dstringcmp" =>
           /\ ret.exc = ""
           /\ ret.val = 0 <=> args[1] = args[2]
           /\ args[1] # args[2] => ret.val = LexicalRule(args[1], args[2])
    /\ op = "sorted" =>
           out = << <<"~", "~">>, <<"~", "~", "a">>, <<"~">>, <<>>, <<"a">> >>

C7_Witness ==
    /\ op = "dstringcmp"
    /\ TildeExtends(args[2], args[1])
    /\ Len(args[1]) > 0
    /\ ret = Returned(1)

\* a and b are a common prefix that does not end in a digit, then a digit run
\* of lx and of ly characters, then a common suffix that does not begin with a
\* digit
DigitRunsAt(a, b, lp, lx, ly) ==
    /\ lp + lx <= Len(a)
    /\ lp + ly <= Len(b)
    /\ UpTo(a, lp) = UpTo(b, lp)
    /\ lp = 0 \/ ~isdigit(a[lp])
    /\ AllDigits(SubSeq(a, lp + 1, lp + lx))
    /\ AllDigits(SubSeq(b, lp + 1, lp + ly))
    /\ From(a, lp + lx) = From(b, lp + ly)
    /\ lp + lx = Len(a) \/ ~isdigit(a[lp + lx + 1])

\* C8: digit runs compare by value: two revisions that differ in one digit run
\* only compare as the values of the two runs, so '9' is less than '10' and
\* runs that differ in leading zeros are equal.
C8_NumericByValue ==
    op = "compare_revision_strings" =>
        \A lp \in 0..Len(args[1]) : \A lx \in 1..Len(args[1]) : \A ly \in 1..Len(args[2]) :
            DigitRunsAt(args[1], args[2], lp, lx, ly) =>
                ret = Returned(Sign(DecVal(SubSeq(args[1], lp + 1, lp + lx))
                                    - DecVal(SubSeq(args[2], lp + 1, lp + ly))))

C8_Witness ==
    /\ op = "compare_revision_strings"
    /\ args = << <<".", "9", "a">>, <<".", "1", "0", "a">> >>
    /\ ret = Returned(-1)

\* C9: listify(s) has even length and alternates a string without digits and
\* an integer >= 0, and listify('') is empty; compare_revision_strings never
\* raises DpkgVersionError.
C9_TokensAlternate ==
    /\ op = "listify" =>
           /\ Len(out) % 2 = 0
           /\ \A i \in 1..Len(out) :
                  IF i % 2 = 1
                  THEN ~out[i].isint /\ \A j \in 1..Len(out[i].s) : ~isdigit(out[i].s[j])
                  ELSE out[i].isint /\ out[i].n >= 0
           /\ args[1] = <<>> => out = <<>>
    /\ op = "compare_revision_strings" => ret.exc = ""

C9_Witness ==
    /\ op = "listify"
    /\ Len(args[1]) > 0
    /\ isdigit(args[1][1])
    /\ Len(out) = 4
    /\ out[1] = StrTok(<<>>)

\* C10: the epoch is a non-negative integer: 0 and the whole string when there
\* is no colon; else the text before the first colon when it is one or more
\* digits; any other prefix (empty, with a letter, signed) is rejected with
\* DpkgVersionError.
C10_EpochNonNegative ==
    op = "get_epoch" =>
        LET e_index == index(args[1], ":")
            prefix == UpTo(args[1], e_index)
        IN  IF e_index = -1
            THEN ret = Returned(0) /\ out = <<args[1]>>
            ELSE IF prefix # <<>> /\ AllDigits(prefix)
                 THEN /\ ret = Returned(DecVal(prefix))
                      /\ out = <<From(args[1], e_index + 1)>>
                 ELSE ret.exc = "DpkgVersionError"

----
(***************************************************************************)
(* Files, paths and digests.  A path is the sequence of its components;    *)
(* fs maps every existing file to the version of its bytes.  A digest is   *)
(* an ideal hash: it names the algorithm and the bytes it was taken over.  *)
(***************************************************************************)
\* most lines in one checksum-list header of a document
MaxFiles == 2
\* versions of the bytes of one source file
MaxBytes == 2

None == <<>>
Some(v) == <<v>>

dirname(path) == SubSeq(path, 1, Len(path) - 1)
basename(path) == path[Len(path)]
join(dir, name) == dir \o <<name>>
isfile(path) == path \in DOMAIN fs
getsize(path) == fs[path]
Hash(hashtype, bytes) == <<hashtype, bytes>>

\* a call on an instance ends by raising exc or by returning val; self is the
\* instance as the call leaves it
Raise(self, e) == [self |-> self, exc |-> e, val |-> None]
Return(self, v) == [self |-> self, exc |-> "", val |-> v]
\* the call did the file I/O of routine r
DidIO(self, r) == [self EXCEPT !.io = @ \cup {r}]
\* body applied to the value of v
With(v, body(_)) == CHOOSE y \in {body(x) : x \in {v}} : TRUE
\* the statements rest after a call that ended as r: an exception of the call
\* propagates, else rest goes on from what the call returned
Try(r, rest(_)) == With(r, LAMBDA x : IF x.exc # "" THEN x ELSE rest(x))

----
(***************************************************************************)
(* Dsc.  A header key is the sequence of its hyphen-separated words; the   *)
(* value of a checksum-list header is the sequence of its lines, each a    *)
(* record [digest, size, name].  input.envelope is what the OpenPGP reader *)
(* makes of the file.                                                      *)
(***************************************************************************)
\* str.lower on the words of the header keys used here; a word that is
\* already lower case is its own image
lower(word) ==
    CASE word = "Source" -> "source"
      [] word = "Files" -> "files"
      [] word = "Checksums" -> "checksums"
      [] word = "Md5" -> "md5"
      [] word = "Sha1" -> "sha1"
      [] word = "Package" -> "package"
      [] word = "VERSION" -> "version"
      [] word = "Depends" -> "depends"
      [] OTHER -> word

startswith_checksums(key) == lower(key[1]) = "checksums"
is_files(key) == Len(key) = 1 /\ lower(key[1]) = "files"
is_checksum_list(key) == startswith_checksums(key) \/ is_files(key)
hashtype_of(key) == IF startswith_checksums(key) THEN lower(key[2]) ELSE "md5"

\* name.split(' '): the words of a file name; of the names used here one has
\* a space in it
words(name) == IF name = "d d.dsc" THEN <<"d", "d.dsc">> ELSE <<name>>
\* line.strip().split(' ') on the text '<digest> <size> <name>' of a line
split_line(line) == <<line.digest, line.size>> \o words(line.name)
\* the lines of a header that do not unpack into three fields (ValueError)
unpackable(lines) == \A j \in 1..Len(lines) : Len(split_line(lines[j])) = 3

\* msg[name]: the value of the first header of that name, case-insensitive
get_header(msg, name) ==
    LET hits == {i \in 1..Len(msg) : Len(msg[i].key) = 1 /\ lower(msg[i].key[1]) = name}
    IN  msg[CHOOSE i \in hits : \A j \in hits : i <= j].lines

NewDsc(filename) ==
    [kind |-> "Dsc", filename |-> filename, dirname |-> dirname(filename),
     message |-> None, pgp_message |-> None, source_files |-> None,
     checksums |-> None, corrected_checksums |-> None, io |-> {}]

PGPMessage_from_file(filename) ==
    IF ~isfile(filename)
    THEN [exc |-> "IOError", message |-> None]
    ELSE IF input.envelope = "signed"
         THEN [exc |-> "", message |-> input.headers]
         ELSE [exc |-> input.envelope, message |-> None]

\* internalize_message adding the line to the Files header only
internalize_message_files_only(self, msg) ==
    [i \in 1..Len(msg) |->
        IF /\ is_files(msg[i].key)
           /\ ~\E j \in 1..Len(msg[i].lines) :
                   split_line(msg[i].lines[j])[3] = basename(self.filename)
        THEN [msg[i] EXCEPT !.lines =
                 Append(@, [digest |-> Hash(hashtype_of(msg[i].key), fs[self.filename]),
                            size |-> getsize(self.filename),
                            name |-> basename(self.filename)])]
        ELSE msg[i]]

internalize_message(self, msg) ==
    LET base == basename(self.filename)
        size == getsize(self.filename)
    IN  [i \in 1..Len(msg) |->
            IF /\ is_checksum_list(msg[i].key)
               /\ ~\E j \in 1..Len(msg[i].lines) : split_line(msg[i].lines[j])[3] = base
            THEN [msg[i] EXCEPT !.lines =
                     Append(@, [digest |-> Hash(hashtype_of(msg[i].key), fs[self.filename]),
                                size |-> size, name |-> base])]
            ELSE msg[i]]

process_dsc_file(self) ==
    With(PGPMessage_from_file(self.filename), LAMBDA env :
        With(DidIO(self, "parse"), LAMBDA ran :
            CASE env.exc = "" ->
                     Return([ran EXCEPT !.pgp_message = Some("envelope")],
                            internalize_message(ran, env.message))
              [] env.exc = "TypeError" -> Raise(ran, "DscBadSignatureError")
              [] env.exc = "IOError" -> Raise(ran, "IOError")
              [] env.exc \in {"ValueError", "PGPError"} ->
                     Return(ran, internalize_message(ran, input.headers))))

Dsc_message(self) ==
    IF self.message # None
    THEN Return(self, self.message[1])
    ELSE Try(process_dsc_file(self), LAMBDA r :
             Return([r.self EXCEPT !.message = Some(r.val)], r.val))

Dsc_pgp_message(self) ==
    Try(Dsc_message(self), LAMBDA m : Return(m.self, m.self.pgp_message))

\* process_source_files looking for the files under their unresolved names
process_source_files_unresolved(self) ==
    Try(Dsc_message(self), LAMBDA m :
        With(get_header(m.val, "files"), LAMBDA files :
            Return(DidIO(m.self, "isfile"),
                   [i \in 1..Len(files) |->
                       <<join(m.self.dirname, files[i].name), files[i].size,
                         isfile(<<files[i].name>>)>>])))

process_source_files(self) ==
    Try(Dsc_message(self), LAMBDA m :
        With(get_header(m.val, "files"), LAMBDA files :
            IF ~unpackable(files) THEN Raise(DidIO(m.self, "isfile"), "ValueError")
            ELSE Return(DidIO(m.self, "isfile"),
                     [i \in 1..Len(files) |->
                         <<join(m.self.dirname, split_line(files[i])[3]),
                           split_line(files[i])[2],
                           isfile(join(m.self.dirname, split_line(files[i])[3]))>>])))

cached_source_files(self) ==
    IF self.source_files # None
    THEN Return(self, self.source_files[1])
    ELSE Try(process_source_files(self), LAMBDA r :
             Return([r.self EXCEPT !.source_files = Some(r.val)], r.val))

RECURSIVE Select(_, _)
\* [x[0] for x in records if keep[x]], with keep the set of kept records
Select(records, keep) ==
    IF records = <<>> THEN <<>>
    ELSE (IF records[1] \in keep THEN <<records[1][1]>> ELSE <<>>)
             \o Select(Tail(records), keep)

Dsc_source_files(self) ==
    Try(cached_source_files(self), LAMBDA r :
        Return(r.self, [i \in 1..Len(r.val) |-> r.val[i][1]]))

Dsc_all_files_present(self) ==
    Try(cached_source_files(self), LAMBDA r :
        Return(r.self, \A i \in 1..Len(r.val) : r.val[i][3]))

Dsc_missing_files(self) ==
    Try(cached_source_files(self), LAMBDA r :
        Return(r.self, Select(r.val, {x \in {r.val[i] : i \in 1..Len(r.val)} : x[3] = FALSE})))

\* d[k] = v on a dict
Put(d, k, v) == [x \in DOMAIN d \cup {k} |-> IF x = k THEN v ELSE d[x]]

RECURSIVE process_checksums_lines(_, _, _)
\* the loop over the lines of one header: sums[hashtype][pathname] = digest
process_checksums_lines(self, table, lines) ==
    IF lines = <<>> THEN table
    ELSE process_checksums_lines(
             self,
             Put(table, join(self.dirname, split_line(lines[1])[3]), split_line(lines[1])[1]),
             Tail(lines))

RECURSIVE process_checksums_reset_loop(_, _, _)
process_checksums_reset_loop(self, sums, msg) ==
    IF msg = <<>> THEN sums
    ELSE IF is_checksum_list(msg[1].key)
         THEN process_checksums_reset_loop(
                  self,
                  Put(sums, hashtype_of(msg[1].key),
                      process_checksums_lines(self, <<>>, msg[1].lines)),
                  Tail(msg))
         ELSE process_checksums_reset_loop(self, sums, Tail(msg))

process_checksums(self) ==
    Try(Dsc_message(self), LAMBDA m :
        IF \E i \in 1..Len(m.val) :
               is_checksum_list(m.val[i].key) /\ ~unpackable(m.val[i].lines)
        THEN Raise(m.self, "ValueError")
        ELSE Return(m.self, process_checksums_reset_loop(m.self, <<>>, m.val)))

Dsc_checksums(self) ==
    IF self.checksums # None
    THEN Return(self, self.checksums[1])
    ELSE Try(process_checksums(self), LAMBDA r :
             Return([r.self EXCEPT !.checksums = Some(r.val)], r.val))

\* the entries of sums[hashtype] whose file hashes to another digest
bad_hashes(sums, hashtype) ==
    {filename \in DOMAIN sums[hashtype] :
        Hash(hashtype, fs[filename]) # sums[hashtype][filename]}

\* validate_checksums keeping a key for every algorithm it has checked
validate_checksums_every_algorithm(self) ==
    Try(Dsc_checksums(self), LAMBDA c :
        IF \E hashtype \in DOMAIN c.val :
               \E filename \in DOMAIN c.val[hashtype] : ~isfile(filename)
        THEN Raise(DidIO(c.self, "hash"), "IOError")
        ELSE Return(DidIO(c.self, "hash"),
                 [hashtype \in DOMAIN c.val |->
                     [filename \in bad_hashes(c.val, hashtype) |->
                         Hash(hashtype, fs[filename])]]))

validate_checksums(self) ==
    Try(Dsc_checksums(self), LAMBDA c :
        IF \E hashtype \in DOMAIN c.val :
               \E filename \in DOMAIN c.val[hashtype] : ~isfile(filename)
        THEN Raise(DidIO(c.self, "hash"), "IOError")
        ELSE Return(DidIO(c.self, "hash"),
                 [hashtype \in {h \in DOMAIN c.val : bad_hashes(c.val, h) # {}} |->
                     [filename \in bad_hashes(c.val, hashtype) |->
                         Hash(hashtype, fs[filename])]]))

\* corrected_checksums testing the cached table for truth, not for None
Dsc_corrected_checksums_truthy(self) ==
    IF self.corrected_checksums # None /\ DOMAIN self.corrected_checksums[1] # {}
    THEN Return(self, self.corrected_checksums[1])
    ELSE Try(validate_checksums(self), LAMBDA r :
             Return([r.self EXCEPT !.corrected_checksums = Some(r.val)], r.val))

Dsc_corrected_checksums(self) ==
    IF self.corrected_checksums # None
    THEN Return(self, self.corrected_checksums[1])
    ELSE Try(validate_checksums(self), LAMBDA r :
             Return([r.self EXCEPT !.corrected_checksums = Some(r.val)], r.val))

Dsc_all_checksums_correct(self) ==
    Try(Dsc_corrected_checksums(self), LAMBDA r : Return(r.self, DOMAIN r.val = {}))

validate(self) ==
    Try(Dsc_all_files_present(self), LAMBDA present :
        IF ~present.val
        THEN [Dsc_missing_files(present.self) EXCEPT !.exc = "DscMissingFileError"]
        ELSE Try(Dsc_all_checksums_correct(present.self), LAMBDA correct :
                 IF ~correct.val
                 THEN [Dsc_corrected_checksums(correct.self)
                          EXCEPT !.exc = "DscBadChecksumsError"]
                 ELSE Return(correct.self, None)))

----
(***************************************************************************)
(* Dpkg.  input.members are the names of the members of the ar container,  *)
(* input.tar the paths of the entries of control.tar.gz, and input.headers *)
(* the header block of the control file, a sequence of [key, value] with   *)
(* key a one-word sequence.                                                *)
(***************************************************************************)
REQUIRED_HEADERS == <<"package", "version", "architecture">>

NewDpkg(filename, ignore_missing) ==
    [kind |-> "Dpkg", filename |-> filename, ignore_missing |-> ignore_missing,
     message |-> None, fileinfo |-> None, epoch |-> None,
     upstream_version |-> None, debian_revision |-> None, io |-> {}]

\* name in message: header names match case-insensitively
has_header(msg, name) == \E i \in 1..Len(msg) : lower(msg[i].key[1]) = lower(name)
header_value(msg, name) ==
    LET hits == {i \in 1..Len(msg) : lower(msg[i].key[1]) = lower(name)}
    IN  msg[CHOOSE i \in hits : \A j \in hits : i <= j].value

\* process_dpkg_file looking for an entry whose whole path is 'control'
process_dpkg_file_whole_path(self) ==
    LET ran == DidIO(self, "parse")
        keys == {lower(input.headers[i].key[1]) : i \in 1..Len(input.headers)}
    IN  IF ~isfile(self.filename) THEN Raise(ran, "IOError")
        ELSE IF "control.tar.gz" \notin input.members
        THEN Raise(ran, "DpkgMissingControlGzipFile")
        ELSE IF ~\E i \in 1..Len(input.tar) : input.tar[i] = <<"control">>
        THEN Raise(ran, "DpkgMissingControlFile")
        ELSE IF /\ \E r \in 1..Len(REQUIRED_HEADERS) : REQUIRED_HEADERS[r] \notin keys
                /\ ~self.ignore_missing
        THEN Raise(ran, "DpkgMissingRequiredHeaderError")
        ELSE Return(ran, input.headers)

\* process_dpkg_file with ignore_missing passing over a missing control file too
process_dpkg_file_lenient_control(self) ==
    LET ran == DidIO(self, "parse")
        tar_members == [i \in 1..Len(input.tar) |-> basename(input.tar[i])]
        keys == {lower(input.headers[i].key[1]) : i \in 1..Len(input.headers)}
    IN  IF ~isfile(self.filename) THEN Raise(ran, "IOError")
        ELSE IF "control.tar.gz" \notin input.members
        THEN Raise(ran, "DpkgMissingControlGzipFile")
        ELSE IF /\ ~\E i \in 1..Len(tar_members) : tar_members[i] = "control"
                /\ ~self.ignore_missing
        THEN Raise(ran, "DpkgMissingControlFile")
        ELSE IF /\ \E r \in 1..Len(REQUIRED_HEADERS) : REQUIRED_HEADERS[r] \notin keys
                /\ ~self.ignore_missing
        THEN Raise(ran, "DpkgMissingRequiredHeaderError")
        ELSE Return(ran, input.headers)

process_dpkg_file(self) ==
    LET ran == DidIO(self, "parse")
        tar_members == [i \in 1..Len(input.tar) |-> basename(input.tar[i])]
        keys == {lower(input.headers[i].key[1]) : i \in 1..Len(input.headers)}
    IN  IF ~isfile(self.filename) THEN Raise(ran, "IOError")
        ELSE IF "control.tar.gz" \notin input.members
        THEN Raise(ran, "DpkgMissingControlGzipFile")
        ELSE IF ~\E i \in 1..Len(tar_members) : tar_members[i] = "control"
        THEN Raise(ran, "DpkgMissingControlFile")
        ELSE IF /\ \E r \in 1..Len(REQUIRED_HEADERS) : REQUIRED_HEADERS[r] \notin keys
                /\ ~self.ignore_missing
        THEN Raise(ran, "DpkgMissingRequiredHeaderError")
        ELSE Return(ran, input.headers)

Dpkg_message(self) ==
    IF self.message # None
    THEN Return(self, self.message[1])
    ELSE Try(process_dpkg_file(self), LAMBDA r :
             Return([r.self EXCEPT !.message = Some(r.val)], r.val))

Dpkg_fileinfo(self) ==
    IF self.fileinfo # None
    THEN Return(self, self.fileinfo[1])
    ELSE IF ~isfile(self.filename) THEN Raise(DidIO(self, "hash"), "IOError")
    ELSE With([md5 |-> Hash("md5", fs[self.filename]),
               sha1 |-> Hash("sha1", fs[self.filename]),
               sha256 |-> Hash("sha256", fs[self.filename]),
               filesize |-> getsize(self.filename)], LAMBDA info :
             Return([DidIO(self, "hash") EXCEPT !.fileinfo = Some(info)], info))

\* self.version, an attribute looked up in the control message
Dpkg_version(self) ==
    Try(Dpkg_message(self), LAMBDA m :
        IF has_header(m.val, "version")
        THEN Return(m.self, header_value(m.val, "version"))
        ELSE Raise(m.self, "AttributeError"))

\* one part of split_full_version(self.version), as the three properties take it
version_part(self, part) ==
    Try(Dpkg_version(self), LAMBDA v :
        With(split_full_version(v.val), LAMBDA r :
            IF r.exc # "" THEN Raise(v.self, r.exc) ELSE Return(v.self, r[part])))

Dpkg_epoch(self) ==
    IF self.epoch # None
    THEN Return(self, self.epoch[1])
    ELSE Try(version_part(self, "epoch"), LAMBDA r :
             Return([r.self EXCEPT !.epoch = Some(r.val)], r.val))

Dpkg_upstream_version(self) ==
    IF self.upstream_version # None
    THEN Return(self, self.upstream_version[1])
    ELSE Try(version_part(self, "upstream"), LAMBDA r :
             Return([r.self EXCEPT !.upstream_version = Some(r.val)], r.val))

Dpkg_debian_revision(self) ==
    IF self.debian_revision # None
    THEN Return(self, self.debian_revision[1])
    ELSE Try(version_part(self, "debian"), LAMBDA r :
             Return([r.self EXCEPT !.debian_revision = Some(r.val)], r.val))

----
(***************************************************************************)
(* One instance, of Dsc or of Dpkg, and the calls made on it.  The files   *)
(* and what they hold are chosen initially; op, ret and out describe the   *)
(* last call, and inst.io the routines that did file I/O during it.        *)
(***************************************************************************)
DscDir == <<"srv">>
DscFile == join(DscDir, "d.dsc")
DebFile == join(DscDir, "p.deb")
SourceNames == {"a", "b"}

\* the lists of at most n lines over distinct files, the asserted digests
\* and sizes being those of version 1 of each file
RECURSIVE DistinctSeqs(_, _)
DistinctSeqs(S, n) ==
    IF n = 0 THEN {<<>>}
    ELSE {<<>>} \cup UNION {{<<x>> \o t : t \in DistinctSeqs(S \ {x}, n - 1)} : x \in S}

Lines(hashtype, names) ==
    [i \in 1..Len(names) |->
        [digest |-> Hash(hashtype, 1), size |-> 1, name |-> names[i]]]

NameLists == DistinctSeqs(SourceNames \cup {basename(DscFile)}, MaxFiles)
\* the lists that name the files in the order a, b, document
NameOrder == <<"a", "b", basename(DscFile)>>
Ascending(l) ==
    \A i, j \in 1..Len(l) :
        i < j => \E m, n \in 1..Len(NameOrder) :
                     m < n /\ NameOrder[m] = l[i] /\ NameOrder[n] = l[j]
OrderedLists == {l \in NameLists : Ascending(l)}

\* a document with the Files header alone lists the files in any order; one
\* with a Checksums header too lists them in the order above, in both headers
FilesHeaders == {[key |-> <<"Files">>, lines |-> Lines("md5", l)] : l \in NameLists}
OrderedFilesHeaders == {[key |-> <<"Files">>, lines |-> Lines("md5", l)] : l \in OrderedLists}
ChecksumsHeaders ==
    {[key |-> <<"Checksums", "Md5">>, lines |-> Lines("md5", l)] : l \in OrderedLists}
    \cup {[key |-> <<"Checksums", "Sha1">>, lines |-> Lines("sha1", l)] : l \in OrderedLists}
SourceHeader == [key |-> <<"Source">>, lines |-> <<>>]

FilesOnly == {<<SourceHeader, f>> : f \in FilesHeaders}
DscMessages ==
    FilesOnly
    \cup {<<SourceHeader, f, c>> : f \in OrderedFilesHeaders, c \in ChecksumsHeaders}
    \cup {<<SourceHeader, c, f>> : f \in OrderedFilesHeaders, c \in ChecksumsHeaders}

\* what PGPMessage.from_file makes of an existing file: a signed message, or
\* the exception it raises (ValueError: the file holds no OpenPGP armor)
Envelopes == {"signed", "ValueError", "PGPError", "TypeError"}

\* every document comes unsigned; the other outcomes of the envelope reader,
\* which do not depend on the headers, come with the Files-only documents
DscInputs ==
    {[kind |-> "dsc", envelope |-> "ValueError", headers |-> m] : m \in DscMessages}
    \cup {[kind |-> "dsc", envelope |-> e, headers |-> m] : e \in Envelopes, m \in FilesOnly}

\* the document with any of the source files next to it, each in any version
\* of its bytes; or the source files without the document
WithDocument ==
    UNION {{[p \in {join(DscDir, n) : n \in present} \cup {DscFile} |->
                 IF p = DscFile THEN 1 ELSE bytes[basename(p)]] :
               bytes \in [present -> 1..MaxBytes]} :
           present \in SUBSET SourceNames}
WithoutDocument == [{join(DscDir, n) : n \in SourceNames} -> {1}]
DscDisks == WithDocument \cup WithoutDocument

TarPaths == {<<"control">>, <<".", "control">>, <<".", "md5sums">>}
\* most entries of a control sub-archive
MaxMembers == 2
Versions == {<<"1", ":", "0", "-", "1">>, <<"0">>, <<":", "0">>}
ControlHeaders ==
    {p \o v \o a \o d :
        p \in {<<>>, <<[key |-> <<"Package">>, value |-> <<"p">>]>>},
        v \in {<<>>} \cup {<<[key |-> <<"VERSION">>, value |-> x]>> : x \in Versions},
        a \in {<<>>, <<[key |-> <<"architecture">>, value |-> <<"a">>]>>},
        d \in {<<>>, <<[key |-> <<"Depends">>, value |-> <<"b">>]>>}}

DebInputs ==
    {[kind |-> "deb", members |-> m, tar |-> t, headers |-> h] :
        m \in {{"debian-binary"}, {"debian-binary", "control.tar.gz"}},
        t \in DistinctSeqs(TarPaths, MaxMembers),
        h \in ControlHeaders}

DebDisks == {NoFiles, [p \in {DebFile} |-> 1]}

InitInst ==
    /\ args = <<>>
    /\ op = "none"
    /\ ret = NoResult
    /\ out = <<>>
    /\ inst = NoInstance
    /\ \/ input \in DscInputs /\ fs \in DscDisks
       \/ input \in DebInputs /\ fs \in DebDisks

\* the call leaves the instance as r.self and ends as r says
Ends(name, r) ==
    /\ op' = name
    /\ ret' = [exc |-> r.exc, val |-> 0]
    /\ out' = r.val
    /\ inst' = r.self
    /\ UNCHANGED <<args, fs, input>>

\* a call of an accessor of the instance; the record of file I/O starts empty
OnDsc(name, accessor(_)) ==
    /\ inst.kind = "Dsc"
    /\ \E r \in {accessor([inst EXCEPT !.io = {}])} : Ends(name, r)

OnDpkg(name, accessor(_)) ==
    /\ inst.kind = "Dpkg"
    /\ \E r \in {accessor([inst EXCEPT !.io = {}])} : Ends(name, r)

DscNew ==
    /\ input.kind = "dsc"
    /\ inst.kind = "none"
    /\ Ends("Dsc", Return(NewDsc(DscFile), None))

DpkgNew ==
    /\ input.kind = "deb"
    /\ inst.kind = "none"
    /\ \E ignore_missing \in BOOLEAN :
           IF ~isfile(DebFile)
           THEN Ends("Dpkg", Raise(inst, "DpkgError"))
           ELSE Ends("Dpkg", Return(NewDpkg(DebFile, ignore_missing), None))

DscMessage == OnDsc("message", Dsc_message)
DscPgpMessage == OnDsc("pgp_message", Dsc_pgp_message)
DscSourceFiles == OnDsc("source_files", Dsc_source_files)
DscAllFilesPresent == OnDsc("all_files_present", Dsc_all_files_present)
DscMissingFiles == OnDsc("missing_files", Dsc_missing_files)
DscChecksums == OnDsc("checksums", Dsc_checksums)
DscCorrectedChecksums == OnDsc("corrected_checksums", Dsc_corrected_checksums)
DscAllChecksumsCorrect == OnDsc("all_checksums_correct", Dsc_all_checksums_correct)
DscValidate == OnDsc("validate", validate)

DpkgMessage == OnDpkg("message", Dpkg_message)
DpkgFileinfo == OnDpkg("fileinfo", Dpkg_fileinfo)
DpkgEpoch == OnDpkg("epoch", Dpkg_epoch)
DpkgUpstreamVersion == OnDpkg("upstream_version", Dpkg_upstream_version)
DpkgDebianRevision == OnDpkg("debian_revision", Dpkg_debian_revision)

NextInst ==
    \/ DscNew
    \/ DscMessage
    \/ DscPgpMessage
    \/ DscSourceFiles
    \/ DscAllFilesPresent
    \/ DscMissingFiles
    \/ DscChecksums
    \/ DscCorrectedChecksums
    \/ DscAllChecksumsCorrect
    \/ DscValidate
    \/ DpkgNew
    \/ DpkgMessage
    \/ DpkgFileinfo
    \/ DpkgEpoch
    \/ DpkgUpstreamVersion
    \/ DpkgDebianRevision

SpecInst == InitInst /\ [][NextInst]_vars

----
(***************************************************************************)
(* The description validator.  The properties read the document as it is   *)
(* written (input.headers) and the files as they are (fs).                 *)
(***************************************************************************)
\* the document can be read and its envelope is not rejected
Readable == DscFile \in DOMAIN fs /\ input.envelope # "TypeError"

IsList(h) == h.key = <<"Files">> \/ h.key[1] = "Checksums"
Algorithm(h) == IF h.key = <<"Files">> THEN "md5" ELSE lower(h.key[2])
Resolved(name) == DscDir \o <<name>>

\* the lines of the checksum-list headers, each with its header's algorithm
Declared(msg) ==
    UNION {{[algorithm |-> Algorithm(msg[i]), line |-> msg[i].lines[j]] :
               j \in 1..Len(msg[i].lines)} :
           i \in {k \in 1..Len(msg) : IsList(msg[k])}}

AbsentDeclared == {d \in Declared(input.headers) : Resolved(d.line.name) \notin DOMAIN fs}
Mismatching ==
    {d \in Declared(input.headers) :
        /\ Resolved(d.line.name) \in DOMAIN fs
        /\ Hash(d.algorithm, fs[Resolved(d.line.name)]) # d.line.digest}

\* C11: validate() of a readable document raises DscMissingFileError when a
\* file listed in Files or in any Checksums-<algorithm> header is absent;
\* else DscBadChecksumsError carrying the Correction Table when a digest
\* mismatches; else it returns normally.  It never ends in an I/O error
\* because a listed file is absent.
C11_ValidateOutcome ==
    (inst.kind = "Dsc" /\ op = "validate" /\ Readable) =>
        IF AbsentDeclared # {}
        THEN ret.exc = "DscMissingFileError"
        ELSE IF Mismatching # {}
             THEN /\ ret.exc = "DscBadChecksumsError"
                  /\ inst.corrected_checksums = <<out>>
             ELSE ret.exc = ""

\* the names the Files header lists once the document is parsed: its lines,
\* and the document itself last when no line names it
Listed ==
    LET files == (CHOOSE h \in {input.headers[i] : i \in 1..Len(input.headers)} :
                      h.key = <<"Files">>).lines
        names == [i \in 1..Len(files) |-> files[i].name]
    IN  IF \E i \in 1..Len(names) : names[i] = DscFile[Len(DscFile)]
        THEN names
        ELSE Append(names, DscFile[Len(DscFile)])
ListedPaths == [i \in 1..Len(Listed) |-> Resolved(Listed[i])]
MissingPaths == SelectSeq(ListedPaths, LAMBDA p : p \notin DOMAIN fs)

C13_CorrectionTableExact ==
    (inst.kind = "Dsc" /\ ret.exc = "") =>
        /\ op = "corrected_checksums" =>
               LET table == inst.checksums[1]
                   wrong == {<<a, p>> \in UNION {{<<a, p>> : p \in DOMAIN table[a]} : a \in DOMAIN table} :
                                <<a, fs[p]>> # table[a][p]}
               IN  /\ \A a \in DOMAIN out : DOMAIN out[a] # {}
                   /\ {<<a, p>> \in UNION {{<<a, p>> : p \in DOMAIN out[a]} : a \in DOMAIN out} : TRUE} = wrong
                   /\ \A a \in DOMAIN out : \A p \in DOMAIN out[a] : out[a][p] = <<a, fs[p]>>
                   /\ (DOMAIN out = {}) <=> (wrong = {})
        /\ op = "all_checksums_correct" =>
               out = (DOMAIN inst.corrected_checksums[1] = {})

C13_Witness ==
    /\ op = "corrected_checksums"
    /\ ret.exc = ""
    /\ DOMAIN out = {"md5", "sha1"}
    /\ DOMAIN inst.checksums[1]["md5"] = {Resolved("a"), Resolved("b"), DscFile}
    /\ DOMAIN out["md5"] = {Resolved("b")}

\* C14: in the headers read after parsing, every checksum-list header that did
\* not list the document has exactly one more line, the last: the digest of
\* the document under the header's algorithm, its measured size and its base
\* name; a header that lists the document, and every other header, is as in
\* the file.
C14_SelfRecordAppended ==
    (inst.kind = "Dsc" /\ op = "message" /\ ret.exc = "") =>
        /\ Len(out) = Len(input.headers)
        /\ \A i \in 1..Len(out) :
               LET h == input.headers[i]
               IN  IF IsList(h) /\ ~\E j \in 1..Len(h.lines) : h.lines[j].name = DscFile[Len(DscFile)]
                   THEN /\ out[i].key = h.key
                        /\ out[i].lines =
                               h.lines \o <<[digest |-> <<Algorithm(h), fs[DscFile]>>,
                                             size |-> getsize(DscFile),
                                             name |-> DscFile[Len(DscFile)]]>>
                   ELSE out[i] = h

C14_Witness ==
    /\ inst.kind = "Dsc"
    /\ op = "message"
    /\ ret.exc = ""
    /\ Len(out) = 3
    /\ out[2].key = <<"Checksums", "Sha1">>
    /\ Len(out[2].lines) = Len(input.headers[2].lines) + 1
    /\ out[3] = input.headers[3]
    /\ out[3].lines # <<>>

\* C15: a document whose OpenPGP envelope is present but invalid ends in
\* DscBadSignatureError: whatever failure the envelope reader reports other
\* than 'no OpenPGP data here' (ValueError), parsing raises
\* DscBadSignatureError and no message is parsed from the raw file; only an
\* unsigned file is parsed raw, with pgp_message None; a signed one has its
\* envelope in pgp_message.
C15_InvalidEnvelopeIsFatal ==
    (inst.kind = "Dsc" /\ op \in {"message", "pgp_message"} /\ DscFile \in DOMAIN fs) =>
        CASE input.envelope = "signed" ->
                 /\ ret.exc = ""
                 /\ inst.pgp_message # <<>>
                 /\ op = "pgp_message" => out = inst.pgp_message
          [] input.envelope = "ValueError" ->
                 /\ ret.exc = ""
                 /\ inst.pgp_message = <<>>
                 /\ op = "pgp_message" => out = <<>>
          [] OTHER ->
                 /\ ret.exc = "DscBadSignatureError"
                 /\ inst.message = <<>>

\* C16: the Checksum Table has, for every line of every checksum-list header
\* (Checksums-<algorithm> under the lower-cased algorithm, Files under md5),
\* an entry algorithm -> resolved path -> asserted digest; so with Files and
\* Checksums-Md5 together every file of either is under md5.
C16_ChecksumTableComplete ==
    (inst.kind = "Dsc" /\ op = "checksums" /\ ret.exc = "") =>
        \A d \in Declared(inst.message[1]) :
            /\ d.algorithm \in DOMAIN out
            /\ Resolved(d.line.name) \in DOMAIN out[d.algorithm]
            /\ out[d.algorithm][Resolved(d.line.name)] = d.line.digest

----
(***************************************************************************)
(* The package extractor.                                                  *)
(***************************************************************************)
HasControlEntry == \E i \in 1..Len(input.tar) : input.tar[i][Len(input.tar[i])] = "control"
HasRequired(name) == \E i \in 1..Len(input.headers) : lower(input.headers[i].key[1]) = name
AllRequired == HasRequired("package") /\ HasRequired("version") /\ HasRequired("architecture")

\* C17: extraction reports the first stage that fails: DpkgMissingControlGzipFile
\* iff the container has no member control.tar.gz; else DpkgMissingControlFile
\* iff no entry of the sub-archive has base name 'control', whatever its
\* directory; else DpkgMissingRequiredHeaderError iff lenient mode is off and
\* one of package, version, architecture is absent, names compared without
\* case; else the header mapping is returned.
C17_FirstFailingStage ==
    (inst.kind = "Dpkg" /\ op = "message") =>
        IF "control.tar.gz" \notin input.members
        THEN ret.exc = "DpkgMissingControlGzipFile"
        ELSE IF ~HasControlEntry
        THEN ret.exc = "DpkgMissingControlFile"
        ELSE IF ~inst.ignore_missing /\ ~AllRequired
        THEN ret.exc = "DpkgMissingRequiredHeaderError"
        ELSE ret.exc = "" /\ out = input.headers

C17_Witness ==
    /\ inst.kind = "Dpkg"
    /\ op = "message"
    /\ ret.exc = ""
    /\ ~inst.ignore_missing
    /\ input.tar = <<<<".", "md5sums">>, <<".", "control">>>>
    /\ Len(out) = 4

\* C18: ignore_missing weakens the required-header check and nothing else:
\* with it extraction never raises DpkgMissingRequiredHeaderError, and still
\* raises DpkgMissingControlGzipFile and DpkgMissingControlFile; without it a
\* missing required header always raises.  A Dsc takes no such option.
C18_LenientOnlyHeaders ==
    /\ (inst.kind = "Dpkg" /\ op = "message") =>
           /\ inst.ignore_missing => ret.exc # "DpkgMissingRequiredHeaderError"
           /\ "control.tar.gz" \notin input.members => ret.exc = "DpkgMissingControlGzipFile"
           /\ ("control.tar.gz" \in input.members /\ ~HasControlEntry) =>
                  ret.exc = "DpkgMissingControlFile"
           /\ (~inst.ignore_missing /\ ~AllRequired) => ret.exc # ""
           /\ ("control.tar.gz" \in input.members /\ HasControlEntry /\ inst.ignore_missing) =>
                  ret.exc = ""
    /\ inst.kind = "Dsc" => "ignore_missing" \notin DOMAIN inst

C18_Witness ==
    /\ inst.kind = "Dpkg"
    /\ op = "message"
    /\ inst.ignore_missing
    /\ ret.exc = "DpkgMissingControlFile"
    /\ input.headers = <<>>
    /\ input.tar # <<>>

\* C19: a constructor given the path of a file that does not exist raises the
\* library's error for invalid input (DpkgError, DscError), so no instance
\* refers to a file that does not exist.
C19_ConstructorRejectsMissingFile ==
    /\ (op = "Dpkg" /\ DebFile \notin DOMAIN fs) => ret.exc = "DpkgError"
    /\ (op = "Dsc" /\ DscFile \notin DOMAIN fs) => ret.exc = "DscError"
    /\ inst.kind # "none" => inst.filename \in DOMAIN fs

----
(***************************************************************************)
(* Memoization.                                                            *)
(***************************************************************************)
\* a call on an instance that has a fact already: the fact stays, the routine
\* that computes it does no file I/O, and the accessor returns the fact
Kept(fact, routine) ==
    inst[fact] # <<>> => inst'[fact] = inst[fact] /\ routine \notin inst'.io
Cached(fact, accessor) ==
    (inst[fact] # <<>> /\ op' = accessor) =>
        ret'.exc = "" /\ out' = inst[fact][1] /\ inst'.io = {}

Memoized ==
    /\ inst.kind = "Dsc" =>
           /\ Kept("message", "parse") /\ Cached("message", "message")
           /\ Kept("source_files", "isfile")
           /\ (inst.source_files # <<>> /\ op' = "source_files") =>
                  /\ ret'.exc = "" /\ inst'.io = {}
                  /\ out' = [i \in 1..Len(inst.source_files[1]) |-> inst.source_files[1][i][1]]
           /\ (inst.source_files # <<>> /\ op' \in {"missing_files", "all_files_present"}) =>
                  ret'.exc = "" /\ inst'.io = {}
           /\ Kept("checksums", "parse") /\ Cached("checksums", "checksums")
           /\ Kept("corrected_checksums", "hash")
           /\ Cached("corrected_checksums", "corrected_checksums")
    /\ inst.kind = "Dpkg" =>
           /\ Kept("message", "parse") /\ Cached("message", "message")
           /\ Kept("fileinfo", "hash") /\ Cached("fileinfo", "fileinfo")
           /\ Kept("epoch", "parse") /\ Cached("epoch", "epoch")
           /\ Kept("upstream_version", "parse")
           /\ Cached("upstream_version", "upstream_version")
           /\ Kept("debian_revision", "parse")
           /\ Cached("debian_revision", "debian_revision")

----
(***************************************************************************)
(* The tokenizer.  The runs of a string are read off the string itself:    *)
(* the longest prefix without a digit, then the longest prefix of digits   *)
(* of what remains, and so on to the end.                                  *)
(***************************************************************************)
RunLength(s, digit) ==
    CHOOSE k \in 0..Len(s) :
        /\ \A j \in 1..k : isdigit(s[j]) = digit
        /\ k < Len(s) => isdigit(s[k + 1]) # digit

RECURSIVE Runs(_)
Runs(s) ==
    IF s = <<>> THEN <<>>
    ELSE LET a == RunLength(s, FALSE)
             rest == SubSeq(s, a + 1, Len(s))
             d == RunLength(rest, TRUE)
         IN  <<SubSeq(s, 1, a), SubSeq(rest, 1, d)>> \o Runs(SubSeq(rest, d + 1, Len(rest)))

RECURSIVE Concat(_)
Concat(strings) == IF strings = <<>> THEN <<>> ELSE strings[1] \o Concat(Tail(strings))

RunValue(run) == IF run = <<>> THEN 0 ELSE DecVal(run)

\* C23: the tokenizer takes its tokens from the whole input, left to right:
\* the tokens of listify(s) are, in order, the runs of s (an alpha run as it
\* is, a digit run by its value, an absent run as '' or 0), and the runs put
\* together give s; get_alphas splits off the longest prefix without digits
\* and get_digits the value of the longest prefix of digits, each leaving
\* what follows the prefix.
C23_TokenizerRoundTrip ==
    /\ op = "listify" =>
           LET runs == Runs(args[1])
           IN  /\ Concat(runs) = args[1]
               /\ Len(out) = Len(runs)
               /\ \A i \in 1..Len(out) :
                      IF i % 2 = 1
                      THEN out[i] = [isint |-> FALSE, s |-> runs[i], n |-> 0]
                      ELSE out[i] = [isint |-> TRUE, s |-> <<>>, n |-> RunValue(runs[i])]
    /\ op = "get_alphas" =>
           /\ out[1] \o out[2] = args[1]
           /\ Len(out[1]) = RunLength(args[1], FALSE)
    /\ op = "get_digits" =>
           LET k == RunLength(args[1], TRUE)
           IN  /\ out[1] = SubSeq(args[1], k + 1, Len(args[1]))
               /\ ret.val = RunValue(SubSeq(args[1], 1, k))

C23_Witness ==
    /\ op = "listify"
    /\ args[1] = <<"a", "0", "1">>
    /\ Len(out) = 2
    /\ out[2].n = 1

----
(***************************************************************************)
(* The while loop of listify, one pass at a time.  While the loop runs,    *)
(* out is its frame [result, revision_str] and ret.val counts the passes.  *)
(***************************************************************************)
\* a pass that leaves the digit run in the remaining string
listify_iterate_keeps_digits(result, revision_str) ==
    LET a == get_alphas(revision_str)
        d == get_digits(a[2])
    IN  [result |-> result \o <<StrTok(a[1]), IntTok(d[1])>>, revision_str |-> a[2]]

listify_iterate(result, revision_str) ==
    LET a == get_alphas(revision_str)
        d == get_digits(a[2])
    IN  [result |-> result \o <<StrTok(a[1]), IntTok(d[1])>>, revision_str |-> d[2]]

ListifyEnter ==
    /\ op = "none"
    /\ op' = "listify:while"
    /\ ret' = NoResult
    /\ out' = [result |-> <<>>, revision_str |-> args[1]]
    /\ UNCHANGED <<args, fs, input, inst>>

\* the count of passes stops one past the length of the argument
ListifyIterate ==
    /\ op = "listify:while"
    /\ out.revision_str # <<>>
    /\ ret.val <= Len(args[1])
    /\ out' = listify_iterate(out.result, out.revision_str)
    /\ ret' = [ret EXCEPT !.val = @ + 1]
    /\ UNCHANGED <<args, op, fs, input, inst>>

ListifyReturn ==
    /\ op = "listify:while"
    /\ out.revision_str = <<>>
    /\ op' = "listify"
    /\ out' = out.result
    /\ UNCHANGED <<args, ret, fs, input, inst>>

InitLoop == Start(StrInputs \cup VerInputs)

NextLoop ==
    \/ ListifyEnter
    \/ ListifyIterate
    \/ ListifyReturn
    \/ CompareRevisionStrings
    \/ CompareVersions

\* execution goes on while a step is possible
SpecLoop == InitLoop /\ [][NextLoop]_vars /\ WF_vars(NextLoop)

Shrinks ==
    (op = "listify:while" /\ op' = "listify:while") =>
        Len(out'.revision_str) < Len(out.revision_str)

\* C24: listify terminates: every pass of its loop takes at least one
\* character off the remaining string, so after n passes at most len(s) - n
\* characters remain and the loop ends, with the tokens of s, after at most
\* len(s) passes; compare_revision_strings and compare_versions return -1, 0
\* or 1 or raise DpkgVersionError.
C24_ListifyTerminates ==
    /\ [][Shrinks]_vars
    /\ [](op = "listify:while" => ret.val + Len(out.revision_str) <= Len(args[1]))
    /\ [](op = "listify" => ret.val <= Len(args[1]) /\ out = listify(args[1]))
    /\ [](op \in {"compare_revision_strings", "compare_versions"} =>
              ret.exc \in {"", "DpkgVersionError"} /\ ret.val \in {-1, 0, 1})
    /\ <>(op \notin {"none", "listify:while"})

C24_Witness ==
    /\ op = "listify"
    /\ args[1] = <<"1", "a">>
    /\ ret.val = 2

----
(***************************************************************************)
(* Instances on a disk that changes between the calls.  The caller puts a  *)
(* missing source file in place, or replaces the package file by another   *)
(* one; op names the change, and ret and out stay those of the last call.  *)
(* The document lies in its directory under two names, one of them with a  *)
(* space in it.                                                            *)
(***************************************************************************)
SpacedFile == join(DscDir, "d d.dsc")
DocumentFiles == {DscFile, SpacedFile}

DiskMessages ==
    FilesOnly
    \cup {<<SourceHeader, f, c>> : f \in OrderedFilesHeaders, c \in ChecksumsHeaders}
DiskDscInputs == {[kind |-> "dsc", envelope |-> "ValueError", headers |-> m] : m \in DiskMessages}
\* the document under both names, with any of the source files next to it
DiskDscDisks ==
    UNION {{[p \in {join(DscDir, n) : n \in present} \cup DocumentFiles |->
                 IF p \in DocumentFiles THEN 1 ELSE bytes[basename(p)]] :
               bytes \in [present -> 1..MaxBytes]} :
           present \in SUBSET SourceNames}

\* packages without the control sub-archive, without the control file in it,
\* without the required headers, and complete ones
DiskHeaders ==
    {<<>>,
     <<[key |-> <<"Package">>, value |-> <<"p">>],
       [key |-> <<"VERSION">>, value |-> <<"0">>],
       [key |-> <<"architecture">>, value |-> <<"a">>]>>}
DiskDebInputs ==
    {[kind |-> "deb", members |-> m, tar |-> t, headers |-> h] :
        m \in {{"debian-binary"}, {"debian-binary", "control.tar.gz"}},
        t \in {<<>>, <<<<".", "control">>>>},
        h \in DiskHeaders}
\* most replacements of the package file
MaxReplaced == 2

InitDisk ==
    /\ args = <<>>
    /\ op = "none"
    /\ ret = NoResult
    /\ out = <<>>
    /\ inst = NoInstance
    /\ \/ input \in DiskDscInputs /\ fs \in DiskDscDisks
       \/ input \in DiskDebInputs /\ fs = [p \in {DebFile} |-> 1]

\* Dsc(filename), for a first instance or a further one
DscOpen ==
    /\ input.kind = "dsc"
    /\ \E filename \in DocumentFiles : Ends("Dsc", Return(NewDsc(filename), None))

\* the caller puts a missing source file next to the document
PutFile ==
    /\ input.kind = "dsc"
    /\ \E n \in SourceNames :
           /\ ~isfile(join(DscDir, n))
           /\ fs' = Put(fs, join(DscDir, n), 1)
    /\ op' = "put"
    /\ UNCHANGED <<args, ret, out, input, inst>>

\* the package file is replaced by another package
ReplacePackage ==
    /\ input.kind = "deb"
    /\ Len(args) < MaxReplaced
    /\ input' \in DiskDebInputs \ {input}
    /\ fs' = [fs EXCEPT ![DebFile] = Len(args) + 2]
    /\ args' = Append(args, basename(DebFile))
    /\ op' = "replace"
    /\ UNCHANGED <<ret, out, inst>>

NextDisk ==
    \/ DscOpen
    \/ PutFile
    \/ DscAllFilesPresent
    \/ DscCorrectedChecksums
    \/ DscValidate
    \/ DpkgNew
    \/ ReplacePackage
    \/ DpkgMessage
    \/ DpkgEpoch

SpecDisk == InitDisk /\ [][NextDisk]_vars

\* C21: after validate() has failed with DscMissingFileError and the caller
\* has put every file of the error's list in place, a further call of
\* validate() on the instance does not fail with DscMissingFileError, and
\* all_files_present is true.
Retried ==
    (/\ op = "put"
     /\ ret.exc = "DscMissingFileError"
     /\ \A i \in 1..Len(out) : isfile(out[i])
     /\ op' \in {"validate", "all_files_present"})
    => /\ ret'.exc # "DscMissingFileError"
       /\ op' = "all_files_present" => out' = TRUE
C21_RetryRecovers == [][Retried]_vars

\* C22: once an access to the headers of a Dpkg instance has failed with
\* DpkgMissingControlGzipFile, DpkgMissingControlFile or
\* DpkgMissingRequiredHeaderError, no later access on the instance returns the
\* headers, whatever happens to the file, and none runs the pipeline again.
PipelineFailures ==
    {"DpkgMissingControlGzipFile", "DpkgMissingControlFile",
     "DpkgMissingRequiredHeaderError"}
Terminal ==
    (/\ ret.exc \in PipelineFailures
     /\ op' \in {"message", "epoch"})
    => /\ ret'.exc # ""
       /\ "parse" \notin inst'.io
C22_TerminalOnFirstFailure == [][Terminal]_vars

\* the document of the instance lists itself in its Files header
ListsItself ==
    \E j \in 1..Len(get_header(input.headers, "files")) :
        get_header(input.headers, "files")[j].name = basename(inst.filename)

\* C25: for a document that does not list itself, the record made for it never
\* fails a validation: the calls that read the record end with a result or
\* with the error of a source file that is absent or differs, the record is
\* cached as present, and the
\* correction table has no entry for the document's path.
C25_SelfRecordNeverFails ==
    (inst.kind = "Dsc" /\ ~ListsItself) =>
        /\ op = "all_files_present" => ret.exc = ""
        /\ op \in {"corrected_checksums", "validate"} =>
               \/ ret.exc \in {"", "DscMissingFileError", "DscBadChecksumsError"}
               \/ ret.exc = "IOError" /\ \E n \in SourceNames : ~isfile(join(DscDir, n))
        /\ inst.source_files # None =>
               \A i \in 1..Len(inst.source_files[1]) :
                   inst.source_files[1][i][1] = inst.filename
                       => inst.source_files[1][i][3]
        /\ inst.corrected_checksums # None =>
               \A hashtype \in DOMAIN inst.corrected_checksums[1] :
                   inst.filename \notin DOMAIN inst.corrected_checksums[1][hashtype]

====
